---------------------------- MODULE Spec2Model ----------------------------
(***************************************************************************)
(* Model of lib/insider.js: the insider-trading query pipeline             *)
(* (getQueryOption -> request -> getTradings -> calcSummary ->              *)
(* displayDetail) and the module-level state it keeps (from, to, the       *)
(* per-market conf.insider[market].qs objects).                            *)
(*                                                                         *)
(* JavaScript values are records of one shape, [t, n, d, s]:               *)
(*   t = "num"  : the number n/d (d >= 1, reduced)                         *)
(*   t = "nan"  : NaN                                                      *)
(*   t = "str"  : the string s                                             *)
(*   t = "text" : a string rendered by numeral(x).format(s) from n/d       *)
(*   t = "textnan" : a string rendered by numeral(NaN).format(s)           *)
(* Text that the code parses (table cells, --span, security codes) is a    *)
(* sequence of one-character strings.                                      *)
(***************************************************************************)
EXTENDS Integers, Sequences, FiniteSets, TLC

VARIABLES
    html,       \* getTradings' input: the data rows of the page
    tradings,   \* the record list handed to calcSummary
    summary,    \* calcSummary's return value
    spc,        \* position of the parse/summarise run
    today,      \* the clock moment() reads
    ticks,      \* how often the clock has advanced
    cmd,        \* the commander options (cmd.span, cmd.from, cmd.to, cmd.page)
    qs,         \* conf.insider[market].qs, one shared object per market
    from,       \* module-level `from`
    to,         \* module-level `to`
    mode,       \* how the host drives the batch: "series" or "parallel"
    batch,      \* the security codes of the batch, in input order
    run,        \* one record per queryInsider invocation
    crashed     \* an uncaught exception has ended the process

svars == <<html, tradings, summary, spc>>
pvars == <<today, ticks, cmd, qs, from, to, mode, batch, run, crashed>>
vars  == <<html, tradings, summary, spc, today, ticks, cmd, qs, from, to, mode,
           batch, run, crashed>>

-----------------------------------------------------------------------------
(* Bounds *)

MaxRows == 3
NumRuns == 2
MaxTicks == 1

-----------------------------------------------------------------------------
(* JavaScript numbers *)

Num(i)   == [t |-> "num",  n |-> i, d |-> 1, s |-> ""]
NaN      == [t |-> "nan",  n |-> 0, d |-> 1, s |-> ""]
Str(x)   == [t |-> "str",  n |-> 0, d |-> 1, s |-> x]

IsNum(a) == a.t = "num"

AbsInt(i) == IF i < 0 THEN -i ELSE i

RECURSIVE Gcd(_, _)
Gcd(a, b) == IF b = 0 THEN a ELSE Gcd(b, a % b)

\* n/d as a reduced fraction with a positive denominator (d # 0)
Ratio(n, d) ==
    LET g  == Gcd(AbsInt(n), AbsInt(d))
        sn == IF d < 0 THEN -n ELSE n
    IN  [t |-> "num", n |-> sn \div g, d |-> AbsInt(d) \div g, s |-> ""]

\* a + b on numbers: NaN is absorbing
JsAdd(a, b) ==
    IF IsNum(a) /\ IsNum(b) THEN Ratio(a.n * b.d + b.n * a.d, a.d * b.d) ELSE NaN

\* a - b
JsSub(a, b) ==
    IF IsNum(a) /\ IsNum(b) THEN Ratio(a.n * b.d - b.n * a.d, a.d * b.d) ELSE NaN

\* a * b
JsMul(a, b) ==
    IF IsNum(a) /\ IsNum(b) THEN Ratio(a.n * b.n, a.d * b.d) ELSE NaN

\* a / b; 0/0 is NaN (x/0 with x # 0 is +-Infinity, which the guards of
\* calcSummary exclude)
JsDiv(a, b) ==
    IF IsNum(a) /\ IsNum(b) /\ b.n # 0 THEN Ratio(a.n * b.d, a.d * b.n) ELSE NaN

\* Math.abs(a)
JsAbs(a) == IF IsNum(a) THEN [a EXCEPT !.n = AbsInt(a.n)] ELSE NaN

\* a > 0: every comparison with NaN is false
JsGtZero(a) == IsNum(a) /\ a.n > 0

\* a !== 0: NaN !== 0 is true
JsNeqZero(a) == ~(IsNum(a) /\ a.n = 0)

-----------------------------------------------------------------------------
(* Text to number *)

Digits == {"0", "1", "2", "3", "4", "5", "6", "7", "8", "9"}

DigitVal(c) ==
    CASE c = "0" -> 0 [] c = "1" -> 1 [] c = "2" -> 2 [] c = "3" -> 3
      [] c = "4" -> 4 [] c = "5" -> 5 [] c = "6" -> 6 [] c = "7" -> 7
      [] c = "8" -> 8 [] c = "9" -> 9

Chars(str) == {str[i] : i \in 1..Len(str)}

RECURSIVE DigitsValue(_, _)
DigitsValue(str, acc) ==
    IF str = <<>> THEN acc
    ELSE DigitsValue(Tail(str), 10 * acc + DigitVal(Head(str)))

RECURSIVE DigitPrefix(_)
DigitPrefix(str) ==
    IF str = <<>> \/ Head(str) \notin Digits THEN <<>>
    ELSE <<Head(str)>> \o DigitPrefix(Tail(str))

HasSign(str) == str # <<>> /\ Head(str) \in {"-", "+"}
Unsigned(str) == IF HasSign(str) THEN Tail(str) ELSE str
SignOf(str) == IF str # <<>> /\ Head(str) = "-" THEN -1 ELSE 1

\* unary plus on a string (ToNumber): the empty string is 0, an optionally
\* signed run of digits is its value, anything else is NaN
ToNumber(str) ==
    IF str = <<>> THEN Num(0)
    ELSE IF Unsigned(str) # <<>> /\ Chars(Unsigned(str)) \subseteq Digits
         THEN Num(SignOf(str) * DigitsValue(Unsigned(str), 0))
         ELSE NaN

\* parseInt(str): the longest optionally signed digit prefix, NaN when there
\* is none; what follows the digits is ignored
ParseInt(str) ==
    IF DigitPrefix(Unsigned(str)) = <<>> THEN NaN
    ELSE Num(SignOf(str) * DigitsValue(DigitPrefix(Unsigned(str)), 0))

-----------------------------------------------------------------------------
(* numeral *)

\* numeral(input): a number is taken as it is (NaN included); a string that
\* Number() cannot read goes through unformat, which keeps only its digits
\* and dots, so 'N/A' becomes 0
numeralValue(input) ==
    CASE input.t = "num" -> input
      [] input.t = "nan" -> NaN
      [] OTHER           -> Num(0)

\* numeral(input).format(fmt): the rendered string.  The digit patterns are
\* those of conf.fmt; the rendered quantity is kept exact here.
numeralFormat(input, fmt) ==
    LET v == numeralValue(input)
    IN  IF v.t = "nan" THEN [t |-> "textnan", n |-> 0, d |-> 1, s |-> fmt]
        ELSE [t |-> "text", n |-> v.n, d |-> v.d, s |-> fmt]

-----------------------------------------------------------------------------
(* calcSummary *)

NA == Str("N/A")

EmptySummary ==
    [buyShare |-> Num(0), sellShare |-> Num(0), buyPrice |-> Num(0),
     sellPrice |-> Num(0), buyCost |-> Num(0), sellProfit |-> Num(0),
     netBuyShare |-> Num(0), netBuyCost |-> Num(0)]

\* Accumulate with the Math.abs calls of the sell branch left out
AccumulateSigned(sm, tr) ==
    IF JsGtZero(tr.CHANGE_NUM)
    THEN [sm EXCEPT
            !.buyShare = JsAdd(sm.buyShare, tr.CHANGE_NUM),
            !.buyCost  = JsAdd(sm.buyCost, JsMul(tr.CHANGE_NUM, tr.CURRENT_AVG_PRICE))]
    ELSE [sm EXCEPT
            !.sellShare  = JsAdd(sm.sellShare, tr.CHANGE_NUM),
            !.sellProfit = JsAdd(sm.sellProfit,
                                 JsMul(tr.CHANGE_NUM, tr.CURRENT_AVG_PRICE))]

\* one step of the _.each loop
Accumulate(sm, tr) ==
    IF JsGtZero(tr.CHANGE_NUM)
    THEN [sm EXCEPT
            !.buyShare = JsAdd(sm.buyShare, tr.CHANGE_NUM),
            !.buyCost  = JsAdd(sm.buyCost, JsMul(tr.CHANGE_NUM, tr.CURRENT_AVG_PRICE))]
    ELSE [sm EXCEPT
            !.sellShare  = JsAdd(sm.sellShare, JsAbs(tr.CHANGE_NUM)),
            !.sellProfit = JsAdd(sm.sellProfit,
                                 JsAbs(JsMul(tr.CHANGE_NUM, tr.CURRENT_AVG_PRICE)))]

RECURSIVE EachTrading(_, _)
EachTrading(sm, trs) ==
    IF trs = <<>> THEN sm ELSE EachTrading(Accumulate(sm, Head(trs)), Tail(trs))

\* the derived fields
Derive(sm) ==
    [sm EXCEPT
        !.buyPrice    = IF JsNeqZero(sm.buyShare)
                        THEN JsDiv(sm.buyCost, sm.buyShare) ELSE NA,
        !.sellPrice   = IF JsNeqZero(sm.sellShare)
                        THEN JsDiv(sm.sellProfit, sm.sellShare) ELSE NA,
        !.netBuyShare = JsSub(sm.buyShare, sm.sellShare),
        !.netBuyCost  = JsSub(sm.buyCost, sm.sellProfit)]

\* the numeral(...).format(...) assignments
FormatSummary(sm) ==
    [buyShare    |-> numeralFormat(sm.buyShare, "common"),
     sellShare   |-> numeralFormat(sm.sellShare, "common"),
     netBuyShare |-> numeralFormat(sm.netBuyShare, "common"),
     buyPrice    |-> numeralFormat(sm.buyPrice, "flot"),
     sellPrice   |-> numeralFormat(sm.sellPrice, "flot"),
     buyCost     |-> numeralFormat(sm.buyCost, "money"),
     netBuyCost  |-> numeralFormat(sm.netBuyCost, "money"),
     sellProfit  |-> numeralFormat(sm.sellProfit, "money")]

NoSummary == [isNull |-> TRUE, v |-> FormatSummary(EmptySummary)]

\* calcSummary without its first line: an empty list gets a zeroed summary
calcSummaryNoEarlyReturn(trs) ==
    [isNull |-> FALSE,
     v |-> FormatSummary(Derive(EachTrading(EmptySummary, trs)))]

calcSummary(trs) ==
    IF Len(trs) = 0 THEN NoSummary
    ELSE [isNull |-> FALSE,
          v |-> FormatSummary(Derive(EachTrading(EmptySummary, trs)))]

-----------------------------------------------------------------------------
(* getTradings *)

\* one tr.cls-data-tr row: the cells the summary reads (td 4 and td 5); the
\* other cells are display text
ParseRow(row) ==
    [CHANGE_NUM        |-> ToNumber(row.td4),
     CURRENT_AVG_PRICE |-> ToNumber(row.td5)]

getTradings(rows) == [i \in 1..Len(rows) |-> ParseRow(rows[i])]

-----------------------------------------------------------------------------
(* Dates (moment) *)

Date(y, m, d) == [y |-> y, m |-> m, d |-> d]

IsLeap(y) == (y % 4 = 0 /\ y % 100 # 0) \/ y % 400 = 0

DaysIn(y, m) ==
    IF m = 2 THEN (IF IsLeap(y) THEN 29 ELSE 28)
    ELSE IF m \in {4, 6, 9, 11} THEN 30 ELSE 31

\* moment(text, ft.inDate).isValid(): the fields read must name a calendar day
IsValidDate(dt) ==
    /\ dt.m \in 1..12
    /\ dt.d >= 1
    /\ dt.d <= DaysIn(dt.y, dt.m)

\* moment().subtract(n, 'month'): calendar months, the day clamped to the
\* length of the month reached
SubtractMonths(dt, n) ==
    LET total == dt.y * 12 + (dt.m - 1) - n
        y2    == total \div 12
        m2    == (total % 12) + 1
        dmax  == DaysIn(y2, m2)
    IN  Date(y2, m2, IF dt.d > dmax THEN dmax ELSE dt.d)

NextDay(dt) ==
    IF dt.d < DaysIn(dt.y, dt.m) THEN Date(dt.y, dt.m, dt.d + 1)
    ELSE IF dt.m < 12 THEN Date(dt.y, dt.m + 1, 1)
    ELSE Date(dt.y + 1, 1, 1)

DateLE(a, b) ==
    \/ a.y < b.y
    \/ a.y = b.y /\ a.m < b.m
    \/ a.y = b.y /\ a.m = b.m /\ a.d <= b.d

\* m.format(fmt): a date string in the pattern fmt
FormatDate(dt, fmt) == [isNull |-> FALSE, fmt |-> fmt, y |-> dt.y, m |-> dt.m, d |-> dt.d]

NoDate == [isNull |-> TRUE, fmt |-> "", y |-> 0, m |-> 0, d |-> 0]

\* moment(x): reads the date string back; moment(undefined) is now
MomentOf(x, now) == IF x.isNull THEN now ELSE Date(x.y, x.m, x.d)

-----------------------------------------------------------------------------
(* conf.js: the market table and the per-market query template *)

Text(str) == [set |-> TRUE, txt |-> str]
Unset     == [set |-> FALSE, txt |-> <<>>]

\* code.substr(0,3)
Prefix(code) == SubSeq(code, 1, IF Len(code) < 3 THEN Len(code) ELSE 3)

\* conf.market[prefix]
Market(prefix) ==
    CASE prefix \in {<<"0","0","0">>, <<"0","0","2">>, <<"3","0","0">>} -> "sz"
      [] prefix \in {<<"6","0","0">>, <<"6","0","1">>, <<"6","0","3">>} -> "sh"
      [] OTHER -> "undefined"

\* conf.insider[market].span, the default span of the template
DefaultSpan(market) == <<"6">>

EmptyQs == [code |-> <<>>, catalog |-> <<>>, page |-> 0, begin |-> NoDate, end |-> NoDate]

-----------------------------------------------------------------------------
(* getQueryOption *)

\* span = parseInt(spanM); span > 24 ? 24 : span; span < 1 ? 1 : span
ClampSpan(spanM) ==
    LET s0 == ParseInt(spanM)
        s1 == IF IsNum(s0) /\ s0.n > 24 THEN Num(24) ELSE s0
    IN  IF IsNum(s1) /\ s1.n < 1 THEN Num(1) ELSE s1

\* cmd.span || option.span, as the text parseInt reads
SpanText(c, market) ==
    IF c.span.set /\ c.span.txt # <<>> THEN c.span.txt ELSE DefaultSpan(market)

\* the months moment().subtract(span, 'month') moves: a NaN span moves none
SpanMonths(span) == IF IsNum(span) THEN span.n ELSE 0

\* The whole function for a known market.  ret = "option" when it returns
\* the option object, "false" after MSG.PARAM_ERROR; q is the market's qs
\* object as the call leaves it; f and t are the module-level from/to.
getQueryOption(code, market, c, q, f, t, now) ==
    LET spanM == SpanText(c, market)
        span  == ClampSpan(spanM)
        q0 == [q EXCEPT !.code = code,
                        !.catalog = IF market = "sz" THEN Prefix(code) ELSE q.catalog,
                        !.page = IF market = "sz"
                                 THEN (IF c.page > 0 THEN c.page ELSE 1) ELSE q.page]
        q1 == IF spanM # <<>>
              THEN [q0 EXCEPT !.end   = FormatDate(now, "outDate"),
                              !.begin = FormatDate(SubtractMonths(now, SpanMonths(span)),
                                                   "outDate")]
              ELSE q0
        fromBad == c.from.set /\ ~IsValidDate(c.from.dt)
        q2 == IF c.from.set /\ ~fromBad
              THEN [q1 EXCEPT !.begin = FormatDate(c.from.dt, "outDate")] ELSE q1
        toBad == c.to.set /\ ~IsValidDate(c.to.dt)
        q3 == IF c.to.set /\ ~toBad
              THEN [q2 EXCEPT !.end = FormatDate(c.to.dt, "outDate")] ELSE q2
        spanRec == [used |-> spanM # <<>>, v |-> span]
    IN  IF fromBad
        THEN [ret |-> "false", q |-> q1, from |-> f, to |-> t, span |-> spanRec]
        ELSE IF toBad
        THEN [ret |-> "false", q |-> q2, from |-> f, to |-> t, span |-> spanRec]
        ELSE [ret |-> "option", q |-> q3,
              from |-> FormatDate(MomentOf(q3.begin, now), "inDate"),
              to   |-> FormatDate(MomentOf(q3.end, now), "inDate"),
              span |-> spanRec]

-----------------------------------------------------------------------------
(* The transport and the payloads *)

Row(shares, price) == [td4 |-> shares, td5 |-> price, priceNull |-> FALSE]

\* a result element of the Shanghai feed: CURRENT_AVG_PRICE may be null
Item(shares, price, isNull) == [td4 |-> shares, td5 |-> price, priceNull |-> isNull]

\* Common.parseJsonP(body): the object inside callback( ... )
parseJsonP(body) == body.json

\* t.CHANGE_NUM = +t.CHANGE_NUM; t.CURRENT_AVG_PRICE = +t.CURRENT_AVG_PRICE || 0
CoerceItem(it) ==
    LET p == IF it.priceNull THEN Num(0) ELSE ToNumber(it.td5)
    IN  [CHANGE_NUM        |-> ToNumber(it.td4),
         CURRENT_AVG_PRICE |-> IF IsNum(p) /\ p.n # 0 THEN p ELSE Num(0)]

CoerceResult(items) == [i \in 1..Len(items) |-> CoerceItem(items[i])]

\* the bodies a 200 response can carry
SzBodies ==
    {<<>>,
     <<Row(<<"1","0","0","0">>, <<"1","0">>)>>,
     <<Row(<<"-","4","0","0">>, <<"1","2">>), Row(<<"-">>, <<"-">>)>>}

ShBodies ==
    {[prefix |-> "cb(", json |-> [result |-> items], suffix |-> ")"] :
        items \in {<<>>,
                   <<Item(<<"1","0","0","0">>, <<>>, TRUE)>>,
                   <<Item(<<"-","4","0","0">>, <<"1","2">>, FALSE)>>}}

NoBody == <<>>

\* what the transport can hand the callback: (e, r, body)
Responses(r) ==
    IF r.ret = "false"
    THEN {[e |-> TRUE, status |-> 0, body |-> NoBody]}
    ELSE {[e |-> TRUE, status |-> 0, body |-> NoBody],
          [e |-> FALSE, status |-> 408, body |-> NoBody],
          [e |-> FALSE, status |-> 500, body |-> NoBody]}
         \cup {[e |-> FALSE, status |-> 200, body |-> b] :
                 b \in IF r.market = "sz" THEN SzBodies ELSE ShBodies}

-----------------------------------------------------------------------------
(* queryInsider *)

NoWindow == [shown |-> FALSE, from |-> NoDate, to |-> NoDate]

PendingRun ==
    [st |-> "pending", market |-> "none", ret |-> "none",
     resolved |-> NoWindow, sent |-> [begin |-> NoDate, end |-> NoDate],
     span |-> [used |-> FALSE, v |-> NaN],
     requested |-> FALSE, parsed |-> FALSE, rendered |-> FALSE,
     header |-> NoWindow, msgs |-> {}, ntrad |-> 0, summaryNull |-> FALSE,
     signalled |-> FALSE]

\* the host: in series each run starts when the previous one has called its
\* callback; in parallel the codes are invoked in input order without waiting
MayStart(i) ==
    IF i = 1 THEN TRUE
    ELSE IF mode = "series" THEN run[i - 1].signalled
    ELSE run[i - 1].st # "pending"

\* Number.isInteger(Number(code))
IsIntegerCode(code) == IsNum(ToNumber(code))

\* queryInsider(code, cb) up to and including the call of request(option, ...)
queryInsider(i) ==
    /\ ~crashed
    /\ run[i].st = "pending"
    /\ MayStart(i)
    /\ LET code   == batch[i]
           market == Market(Prefix(code))
       IN  IF ~IsIntegerCode(code)
           THEN /\ run' = [run EXCEPT ![i].st = "failed",
                                      ![i].msgs = @ \cup {"INPUT_ERROR"}]
                /\ UNCHANGED <<qs, from, to, crashed>>
           ELSE IF market = "undefined"
           THEN \* conf.insider[undefined] is undefined: option.span throws
                /\ run' = [run EXCEPT ![i].st = "crashed", ![i].market = market]
                /\ crashed' = TRUE
                /\ UNCHANGED <<qs, from, to>>
           ELSE LET r == getQueryOption(code, market, cmd, qs[market], from, to, today)
                IN  /\ qs' = [qs EXCEPT ![market] = r.q]
                    /\ from' = r.from
                    /\ to' = r.to
                    /\ run' = [run EXCEPT
                          ![i].st = "inflight",
                          ![i].market = market,
                          ![i].ret = r.ret,
                          ![i].span = r.span,
                          ![i].resolved = IF r.ret = "option"
                                          THEN [shown |-> TRUE, from |-> r.from, to |-> r.to]
                                          ELSE NoWindow,
                          ![i].sent = IF r.ret = "option"
                                      THEN [begin |-> r.q.begin, end |-> r.q.end]
                                      ELSE @,
                          ![i].msgs = IF r.ret = "false" THEN @ \cup {"PARAM_ERROR"} ELSE @,
                          ![i].requested = TRUE]
                    /\ UNCHANGED crashed
    /\ UNCHANGED <<today, ticks, cmd, mode, batch>>
    /\ UNCHANGED svars

\* displayDetail(code, summary, tradings): the header line with the
\* module-level from/to, then MSG.NO_TRADING or the summary and the records
displayDetail(r, sm, f, t) ==
    [r EXCEPT !.rendered = TRUE,
              !.header = IF ~f.isNull /\ ~t.isNull
                         THEN [shown |-> TRUE, from |-> f, to |-> t] ELSE NoWindow,
              !.msgs = IF sm.isNull THEN @ \cup {"NO_TRADING"}
                       ELSE @ \cup {"SUMMARY", "TRADINGS"}]

\* the request callback function(e, r, body)
Callback(r, resp) ==
    IF resp.e \/ resp.status # 200
    THEN IF ~resp.e /\ resp.status = 408
         THEN [r EXCEPT !.st = "failed", !.msgs = @ \cup {"SYSTEM_BUSY"}]
         ELSE [r EXCEPT !.st = "failed", !.msgs = @ \cup {"REQUEST_ERROR"}]
    ELSE LET trs == IF r.market = "sz" THEN getTradings(resp.body)
                    ELSE CoerceResult(parseJsonP(resp.body).result)
             sm  == calcSummary(trs)
             shown == displayDetail([r EXCEPT !.parsed = TRUE,
                                                 !.ntrad = Len(trs),
                                                 !.summaryNull = sm.isNull],
                                    sm, from, to)
         IN  \* 'Done!' is printed and cb() is called after displayDetail
             [shown EXCEPT !.st = "done",
                           !.msgs = @ \cup {"Done"},
                           !.signalled = TRUE]

Respond(i) ==
    /\ ~crashed
    /\ run[i].st = "inflight"
    /\ \E resp \in Responses(run[i]) :
          run' = [run EXCEPT ![i] = Callback(run[i], resp)]
    /\ UNCHANGED <<today, ticks, cmd, qs, from, to, mode, batch, crashed>>
    /\ UNCHANGED svars

\* the calendar day changes while the process runs
Tick ==
    /\ ~crashed
    /\ ticks < MaxTicks
    /\ today' = NextDay(today)
    /\ ticks' = ticks + 1
    /\ UNCHANGED <<cmd, qs, from, to, mode, batch, run, crashed>>
    /\ UNCHANGED svars

-----------------------------------------------------------------------------
(* Inputs *)

Codes ==
    {<<"0","0","2","0","6","5">>, <<"6","0","0","1","1","8">>,
     <<"9","9","9","9","9","9">>, <<"6","0","x">>}

SpanInputs ==
    {Unset, Text(<<"3","m">>), Text(<<"0">>), Text(<<"3","0">>), Text(<<"a","b","c">>)}

NoDateInput == [set |-> FALSE, dt |-> Date(0, 0, 0)]
DateInput(y, m, d) == [set |-> TRUE, dt |-> Date(y, m, d)]

\* cmd.page: 0 stands for an option that was not given
PageInputs == {0, 2}

FromInputs == {NoDateInput, DateInput(2016, 1, 1), DateInput(2015, 2, 30)}
ToInputs   == {NoDateInput, DateInput(2015, 6, 30), DateInput(2015, 13, 1)}

\* the option sets a process is started with: every span/from/to combination
\* without --page, and --page on its own
CmdInputs ==
    [span : SpanInputs, from : FromInputs, to : ToInputs, page : {0}]
    \cup [span : {Unset}, from : {NoDateInput}, to : {NoDateInput}, page : PageInputs]

Today0 == Date(2015, 7, 31)

RECURSIVE SeqsOf(_, _)
SeqsOf(S, n) ==
    IF n = 0 THEN {<<>>}
    ELSE {Append(q, x) : q \in SeqsOf(S, n - 1), x \in S}

RECURSIVE SeqsUpTo(_, _)
SeqsUpTo(S, n) == IF n = 0 THEN {<<>>} ELSE SeqsOf(S, n) \cup SeqsUpTo(S, n - 1)

ShareCells == {<<"1","0","0","0">>, <<"-","4","0","0">>, <<"0">>, <<"-">>}
PriceCells == {<<"1","0">>, <<"1","2">>, <<"5">>, <<"-">>}
RowInputs  == {Row(a, b) : a \in ShareCells, b \in PriceCells}

-----------------------------------------------------------------------------
(* The pipeline *)

SummaryIdle ==
    /\ html = <<>>
    /\ tradings = <<>>
    /\ summary = NoSummary
    /\ spc = "off"

PipelineIdle ==
    /\ today = Today0
    /\ ticks = 0
    /\ cmd = [span |-> Unset, from |-> NoDateInput, to |-> NoDateInput, page |-> 0]
    /\ qs = [m \in {"sz", "sh"} |-> EmptyQs]
    /\ from = NoDate
    /\ to = NoDate
    /\ mode = "series"
    /\ batch = <<>>
    /\ run = <<>>
    /\ crashed = FALSE

Init ==
    /\ SummaryIdle
    /\ today = Today0
    /\ ticks = 0
    /\ cmd \in CmdInputs
    /\ qs = [m \in {"sz", "sh"} |-> EmptyQs]
    /\ from = NoDate
    /\ to = NoDate
    /\ mode \in {"series", "parallel"}
    /\ batch \in SeqsOf(Codes, NumRuns)
    /\ run = [i \in 1..NumRuns |-> PendingRun]
    /\ crashed = FALSE

Next ==
    \/ \E i \in 1..NumRuns : queryInsider(i)
    \/ \E i \in 1..NumRuns : Respond(i)
    \/ Tick

Spec == Init /\ [][Next]_vars

-----------------------------------------------------------------------------
(* getTradings and calcSummary on their own *)

GetTradingsStep ==
    /\ spc = "raw"
    /\ tradings' = getTradings(html)
    /\ spc' = "parsed"
    /\ UNCHANGED <<html, summary>>
    /\ UNCHANGED pvars

CalcSummaryStep ==
    /\ spc = "parsed"
    /\ summary' = calcSummary(tradings)
    /\ spc' = "summarized"
    /\ UNCHANGED <<html, tradings>>
    /\ UNCHANGED pvars

InitSummary ==
    /\ PipelineIdle
    /\ html \in SeqsUpTo(RowInputs, MaxRows)
    /\ tradings = <<>>
    /\ summary = NoSummary
    /\ spc = "raw"

NextSummary == GetTradingsStep \/ CalcSummaryStep

SpecSummary == InitSummary /\ [][NextSummary]_vars

-----------------------------------------------------------------------------
(* Reference quantities for the summary *)

Trade(shares, price) == [CHANGE_NUM |-> Num(shares), CURRENT_AVG_PRICE |-> Num(price)]

\* a record as the data model describes it: integer shares, price >= 0
Numeric(tr) ==
    /\ IsNum(tr.CHANGE_NUM)
    /\ IsNum(tr.CURRENT_AVG_PRICE)
    /\ tr.CURRENT_AVG_PRICE.n >= 0

IsBuy(tr)       == tr.CHANGE_NUM.n > 0
IsSell(tr)      == tr.CHANGE_NUM.n < 0
IsZeroShare(tr) == IsNum(tr.CHANGE_NUM) /\ tr.CHANGE_NUM.n = 0
NotZeroShare(tr) == ~IsZeroShare(tr)

RECURSIVE TotalShares(_)
TotalShares(trs) ==
    IF trs = <<>> THEN 0
    ELSE AbsInt(Head(trs).CHANGE_NUM.n) + TotalShares(Tail(trs))

RECURSIVE TotalMoney(_)
TotalMoney(trs) ==
    IF trs = <<>> THEN 0
    ELSE AbsInt(Head(trs).CHANGE_NUM.n * Head(trs).CURRENT_AVG_PRICE.n)
         + TotalMoney(Tail(trs))

\* the rendered string shows the integer i
Shows(x, i) == x.t = "text" /\ x.n = i /\ x.d = 1

\* the rendered string shows the quotient a/b
ShowsQuotient(x, a, b) == x.t = "text" /\ x.d >= 1 /\ x.n * b = a * x.d

IsSentinel(x) == x.t = "str" /\ x.s = "N/A"

Accumulators(sm) == <<sm.v.buyShare, sm.v.buyCost, sm.v.sellShare, sm.v.sellProfit>>

Totals(sm) ==
    <<sm.v.buyShare, sm.v.buyCost, sm.v.sellShare, sm.v.sellProfit,
      sm.v.netBuyShare, sm.v.netBuyCost>>

Scenario == <<Trade(1000, 10), Trade(-400, 12)>>

-----------------------------------------------------------------------------
(* Claims *)

\* C1: for a non-empty list of records with integer changeShares and
\* non-negative integer avgPrice, calcSummary's buyShares is the sum of the
\* positive changeShares, buyCost the sum of changeShares*avgPrice over them,
\* sellShares and sellProceeds the sums of |changeShares| and
\* |changeShares*avgPrice| over the negative ones, netShares and netCost their
\* differences, and each average price is cost/shares when shares # 0; the
\* list [+1000 @10, -400 @12] gives 1000, 10000, 400, 4800, 600, 5200.
C1_SummaryTotals ==
    (spc = "summarized" /\ tradings # <<>>
        /\ \A i \in 1..Len(tradings) : Numeric(tradings[i]))
    => LET buys  == SelectSeq(tradings, IsBuy)
           sells == SelectSeq(tradings, IsSell)
           bs == TotalShares(buys)
           bc == TotalMoney(buys)
           ss == TotalShares(sells)
           sp == TotalMoney(sells)
           v  == summary.v
       IN  /\ ~summary.isNull
           /\ Shows(v.buyShare, bs)
           /\ Shows(v.buyCost, bc)
           /\ Shows(v.sellShare, ss)
           /\ Shows(v.sellProfit, sp)
           /\ Shows(v.netBuyShare, bs - ss)
           /\ Shows(v.netBuyCost, bc - sp)
           /\ (bs # 0 => ShowsQuotient(v.buyPrice, bc, bs))
           /\ (ss # 0 => ShowsQuotient(v.sellPrice, sp, ss))
           /\ (tradings = Scenario =>
                  /\ Shows(v.buyShare, 1000) /\ Shows(v.buyCost, 10000)
                  /\ Shows(v.sellShare, 400) /\ Shows(v.sellProfit, 4800)
                  /\ Shows(v.netBuyShare, 600) /\ Shows(v.netBuyCost, 5200)
                  /\ Shows(v.buyPrice, 10) /\ Shows(v.sellPrice, 12))

C1_Witness ==
    /\ spc = "summarized"
    /\ tradings = Scenario
    /\ Shows(summary.v.netBuyCost, 5200)

ErrorMsgs == {"INPUT_ERROR", "PARAM_ERROR", "REQUEST_ERROR", "SYSTEM_BUSY"}

\* C2: calcSummary returns null exactly when the record list is empty, and a
\* response whose page holds no data rows ends in the "no transactions in
\* this window" outcome, not in an error outcome.
C2_EmptyIsNoTrading ==
    \A i \in 1..Len(run) :
        run[i].parsed =>
            /\ (run[i].summaryNull <=> run[i].ntrad = 0)
            /\ (run[i].ntrad = 0 =>
                    /\ run[i].st = "done"
                    /\ "NO_TRADING" \in run[i].msgs
                    /\ "SUMMARY" \notin run[i].msgs
                    /\ run[i].msgs \cap ErrorMsgs = {})
            /\ (run[i].ntrad > 0 => "NO_TRADING" \notin run[i].msgs)

C2_Witness ==
    \E i \in 1..Len(run) :
        /\ run[i].market = "sz"
        /\ run[i].parsed
        /\ run[i].ntrad = 0
        /\ run[i].summaryNull
        /\ "NO_TRADING" \in run[i].msgs

\* C3: a record with changeShares = 0 is in neither bucket: the four
\* accumulators of a list equal those of the list without its zero-share
\* records, and a list of only zero-share records has buyShares = 0,
\* sellShares = 0 and both average prices the "not applicable" sentinel.
C3_ZeroShareNeutral ==
    spc = "summarized" =>
        LET nz == SelectSeq(tradings, NotZeroShare)
        IN  /\ (nz # <<>> => Accumulators(summary) = Accumulators(calcSummary(nz)))
            /\ (tradings # <<>> /\ nz = <<>> =>
                    /\ Shows(summary.v.buyShare, 0)
                    /\ Shows(summary.v.sellShare, 0)
                    /\ IsSentinel(summary.v.buyPrice)
                    /\ IsSentinel(summary.v.sellPrice))

\* C4: whatever --span holds, the span used to compute the begin date is an
\* integer with 1 <= span <= 24.
C4_SpanClamped ==
    \A i \in 1..Len(run) :
        run[i].span.used =>
            /\ IsNum(run[i].span.v)
            /\ run[i].span.v.d = 1
            /\ run[i].span.v.n >= 1
            /\ run[i].span.v.n <= 24

\* C5: whenever getQueryOption returns a query, its begin date is on or
\* before its end date (stated here for the runs whose span is a number, so
\* that a refutation does not rest on a span that failed to parse).
C5_BeginBeforeEnd ==
    \A i \in 1..Len(run) :
        (run[i].ret = "option" /\ IsNum(run[i].span.v)) =>
            DateLE(MomentOf(run[i].sent.begin, today), MomentOf(run[i].sent.end, today))

\* C6: when --from or --to is not a valid date, the query builder fails with
\* the parameter-error message and the run is aborted: no transport request,
\* no parsing, no report.
C6_InvalidDateAborts ==
    \A i \in 1..Len(run) :
        ( /\ run[i].st \notin {"pending", "crashed"}
          /\ run[i].market \in {"sz", "sh"}
          /\ \/ cmd.from.set /\ ~IsValidDate(cmd.from.dt)
             \/ cmd.to.set /\ ~IsValidDate(cmd.to.dt) )
        => /\ "PARAM_ERROR" \in run[i].msgs
           /\ ~run[i].requested
           /\ ~run[i].parsed
           /\ ~run[i].rendered

\* C7: a numeric code whose prefix is not in the market table fails with a
\* reported UnknownMarket error for that code only: nothing is defaulted, no
\* query is built or sent, and nothing crashes.
C7_UnknownMarketReported ==
    \A i \in 1..Len(run) :
        ( /\ run[i].st # "pending"
          /\ IsIntegerCode(batch[i])
          /\ Market(Prefix(batch[i])) = "undefined" )
        => /\ ~crashed
           /\ run[i].st = "failed"
           /\ "UNKNOWN_MARKET" \in run[i].msgs
           /\ ~run[i].requested

\* C8: a record whose changeShares or avgPrice cell is not a number is left
\* out of the arithmetic: the totals of a list holding such records equal
\* those of the list without them, and none of them is not-a-number.
C8_NonNumericExcluded ==
    spc = "summarized" =>
        LET known == SelectSeq(tradings, Numeric)
        IN  known # tradings =>
                /\ \A k \in 1..6 : Totals(summary)[k].t # "textnan"
                /\ (known # <<>> => Totals(summary) = Totals(calcSummary(known)))

\* C9: in a batch run in series, every run that has ended, failed or not,
\* has signalled completion through its callback (so the next code starts).
C9_EveryRunSignals ==
    \A i \in 1..Len(run) :
        (mode = "series" /\ run[i].st \in {"failed", "done", "crashed"})
        => run[i].signalled

\* C10: the date range in the report header of a query is the window that
\* getQueryOption resolved for that same query.
C10_HeaderIsOwnWindow ==
    \A i \in 1..Len(run) :
        run[i].rendered => run[i].header = run[i].resolved

=============================================================================
